---- MODULE Spec2Model ----
(***************************************************************************)
(* nagibackup (src/main.go, the program of lines 336-621): a pagination    *)
(* walker pushes item URLs on an unbuffered channel; a sink (download or   *)
(* dry-run report) drains it; the download sink spawns one goroutine per   *)
(* "size=o" link, bounded by a buffered channel used as a semaphore; a     *)
(* sync.WaitGroup gates the exit of main.                                  *)
(*                                                                         *)
(* Strings are sequences of tokens, so that concatenation (+), HasPrefix   *)
(* and Contains are computed and not assumed: "" is << >>.                 *)
(***************************************************************************)
EXTENDS Integers, Sequences, FiniteSets, Bags, TLC

\* ---------------------------------------------------------------- bounds
\* Listing pages the site links by a pager (besides the bare domain).
MaxPages == 2
\* Item anchors on all the listing pages of the site together.
MaxItems == 2
\* Largest value of the -parallel flag tried (0 disables the semaphore).
MaxParallel == 2

\* A run on a cyclic pager never ends: the walker's fetches are capped.  An
\* acyclic chain has at most MaxPages + 1 pages (the bare domain included).
MaxFetches == MaxPages + 1

\* --------------------------------------------------------------- strings
EmptyString == << >>

HasPrefix(s, prefix) ==
    /\ Len(s) >= Len(prefix)
    /\ SubSeq(s, 1, Len(prefix)) = prefix

Contains(s, token) == \E i \in 1..Len(s) : s[i] = token

\* goquery's Selection.Attr: (val, ok).
Attr(v) == [ok |-> TRUE, val |-> v]
NoAttr == [ok |-> FALSE, val |-> EmptyString]

\* initDefaults
defaultDomain == <<"http://nagi.ee">>

PageNames == <<"/p1", "/p2", "/p3", "/p4">>
ItemNames == <<"/i1", "/i2", "/i3", "/i4", "/i5", "/i6", "/i7", "/i8">>

PageHref(k) == <<PageNames[k]>>
PageUrl(k) == defaultDomain \o PageHref(k)

\* The site numbers its items: the href of the n-th item anchor with an href that
\* it serves, in page order and document order.
ItemHref(n) == <<"/item", ItemNames[n]>>

\* ------------------------------------------------------------- documents
\* div.pager a.navi anchors of a listing page, in document order.
NextAnchor(k) == [id |-> Attr(<<"next_pager_", PageNames[k]>>), href |-> Attr(PageHref(k))]
InvalidNextAnchor == [id |-> Attr(<<"next_pager_", "x">>), href |-> NoAttr]
PrevAnchor == [id |-> Attr(<<"prev_pager_", "/p1">>), href |-> Attr(PageHref(1))]
NoIdAnchor == [id |-> NoAttr, href |-> Attr(PageHref(1))]

Pagers ==
    {<< >>, <<InvalidNextAnchor>>}
        \cup {<<NoIdAnchor, PrevAnchor, NextAnchor(k)>> : k \in 1..MaxPages}

\* Number of TRUE among the first j flags.
RECURSIVE CountTrue(_, _)
CountTrue(flags, j) ==
    IF j = 0 THEN 0
    ELSE CountTrue(flags, j - 1) + (IF flags[j] THEN 1 ELSE 0)

\* div.imagelog p a anchors: flags[j] says whether anchor j has an href; the
\* hrefs go on from item number base + 1.
ItemAnchors(base, flags) ==
    [j \in 1..Len(flags) |->
        IF flags[j] THEN Attr(ItemHref(base + CountTrue(flags, j))) ELSE NoAttr]

FlagSeqs(n) == UNION {[1..m -> BOOLEAN] : m \in 0..n}

\* The div.imagelog p a anchor lists of at most n anchors.
ItemLists(base, n) == {ItemAnchors(base, f) : f \in FlagSeqs(n)}

\* #zoom ul li a anchors of an item page.
OrigLink == Attr(<<"/photo", "size=o">>)
SmallLink == Attr(<<"/photo", "size=s">>)

ZoomLists == {<<NoAttr, SmallLink>>, <<NoAttr, SmallLink, OrigLink>>}

\* ----------------------------------------------------------------- state
VARIABLES
    config,      \* conf: parallel, verbose, dryrun, url
    site,        \* the pager of each listing page served so far, by URL
    proc,        \* "running", "exit0" (os.Exit(0)) or "exit1" (log.Fatal)
    fatal,       \* which log.Fatal ended the process, "" if none
    mainPc,      \* main's position
    dirCreated,  \* createDestinationDir made the output directory
    wg,          \* the WaitGroup's counter
    semaphore,   \* number of tokens buffered in the semaphore channel
    closed,      \* close(urls) has run
    walker,      \* fetchAllImageUrls: pc, url, todo (item anchors Each has not
                 \* visited yet)
    visited,     \* URLs of the listing pages fetched, in order
    served,      \* number of item anchors with an href in the documents fetched
    sink,        \* downloadImages / printImages: pc, url, todo (zoom anchors
                 \* Each has not visited yet)
    received,    \* item URLs the sink received, in order
    printed,     \* lines printImages wrote
    tasks,       \* bag of running downloadActualImage goroutines: pc, res, rel
    finished     \* number of downloadActualImage goroutines that returned

vars == <<config, site, proc, fatal, mainPc, dirCreated, wg, semaphore, closed,
          walker, visited, served, sink, received, printed, tasks, finished>>

Task(pc, res, rel) == [pc |-> pc, res |-> res, rel |-> rel]

Init ==
    /\ config \in [parallel : 0..MaxParallel, verbose : BOOLEAN, dryrun : BOOLEAN,
                   url : {PageUrl(1)}]
    /\ site = [u \in {} |-> 0]
    /\ proc = "running"
    /\ fatal = ""
    /\ mainPc = "main"
    /\ dirCreated = FALSE
    /\ wg = 0
    /\ semaphore = 0
    /\ closed = FALSE
    /\ walker = [pc |-> "idle", url |-> EmptyString, todo |-> << >>]
    /\ visited = << >>
    /\ served = 0
    /\ sink = [pc |-> "idle", url |-> EmptyString, todo |-> << >>]
    /\ received = << >>
    /\ printed = << >>
    /\ tasks = EmptyBag
    /\ finished = 0

\* log.Print in place of log.Fatal: the error is logged and the process goes on.
Fatal_LogsOnly(cause) ==
    /\ proc' = proc
    /\ fatal' = cause

\* log.Fatal: the process exits with status 1; deferred calls do not run.
Fatal(cause) ==
    /\ proc' = "exit1"
    /\ fatal' = cause

Running == proc = "running"

\* ------------------------------------------------------------------ main
\* createDestinationDir() called whatever the mode.
NeedsDirectory_Always == TRUE

\* main: if !config.dryrun { createDestinationDir() }
NeedsDirectory == ~config.dryrun

\* main up to initParallelSemaphore: os.MkdirAll fails or makes the directory.
Main_CreateDir ==
    /\ Running
    /\ mainPc = "main"
    /\ IF NeedsDirectory
       THEN \E ok \in BOOLEAN :
               IF ok
               THEN /\ dirCreated' = TRUE
                    /\ mainPc' = "start"
                    /\ UNCHANGED <<proc, fatal>>
               ELSE /\ Fatal("mkdir")
                    /\ UNCHANGED <<dirCreated, mainPc>>
       ELSE /\ mainPc' = "start"
            /\ UNCHANGED <<dirCreated, proc, fatal>>
    /\ UNCHANGED <<config, site, wg, semaphore, closed, walker, visited, served, sink,
                   received, printed, tasks, finished>>

\* startDownloads: the sink started for the item-URL stream.
SinkEntry == IF config.dryrun THEN "print-recv" ELSE "recv"

\* initParallelSemaphore, then startDownloads up to wg.Wait(): wg.Add(2) and the
\* two go statements.
Main_Start ==
    /\ Running
    /\ mainPc = "start"
    /\ semaphore' = 0
    /\ wg' = wg + 2
    /\ walker' = [walker EXCEPT !.pc = "loop", !.url = config.url]
    /\ sink' = [sink EXCEPT !.pc = SinkEntry]
    /\ mainPc' = "wait"
    /\ UNCHANGED <<config, site, proc, fatal, dirCreated, closed, visited,
                   served, received, printed, tasks, finished>>

\* wg.Wait() returns when the counter is zero; then os.Exit(0).
WaitReturns == wg = 0

Main_Wait ==
    /\ Running
    /\ mainPc = "wait"
    /\ WaitReturns
    /\ mainPc' = "exited"
    /\ proc' = "exit0"
    /\ UNCHANGED <<config, site, fatal, dirCreated, wg, semaphore, closed, walker,
                   visited, served, sink, received, printed, tasks, finished>>

\* ---------------------------------------------------------------- walker
\* extractNextUrl: the last a.navi anchor whose id starts with next_pager_ sets
\* nextUrl to defaultDomain + href; a missing href is logged and "" is appended.
RECURSIVE ExtractNextUrlFrom(_, _)
ExtractNextUrlFrom(anchors, nextUrl) ==
    IF anchors = << >> THEN nextUrl
    ELSE LET s == Head(anchors)
         IN IF ~s.id.ok
            THEN ExtractNextUrlFrom(Tail(anchors), nextUrl)
            ELSE IF ~HasPrefix(s.id.val, <<"next_pager_">>)
            THEN ExtractNextUrlFrom(Tail(anchors), nextUrl)
            ELSE ExtractNextUrlFrom(Tail(anchors), defaultDomain \o s.href.val)

extractNextUrl(pager) == ExtractNextUrlFrom(pager, EmptyString)

\* The item anchors with an href among anchors, in order.
RECURSIVE Hrefs(_)
Hrefs(anchors) ==
    IF anchors = << >> THEN << >>
    ELSE IF Head(anchors).ok THEN <<Head(anchors).val>> \o Hrefs(Tail(anchors))
    ELSE Hrefs(Tail(anchors))

\* The item anchors of the document goquery.NewDocument(url) may parse: within
\* the site's item bound, their hrefs numbered after the items already served.
ServedItems == ItemLists(served, MaxItems - served)

\* The pager anchors of the document at url: the same at every fetch of url.
ServedPagers(url) == IF url \in DOMAIN site THEN {site[url]} ELSE Pagers

\* for url != "": goquery.NewDocument(url), log.Fatal on error.
W_Fetch ==
    /\ Running
    /\ walker.pc = "loop"
    /\ walker.url # EmptyString
    /\ Len(visited) < MaxFetches
    /\ \E ok \in BOOLEAN :
          IF ok
          THEN /\ \E items \in ServedItems :
                     /\ walker' = [walker EXCEPT !.pc = "extract", !.todo = items]
                     /\ served' = served + Len(Hrefs(items))
               /\ visited' = Append(visited, walker.url)
               /\ UNCHANGED <<proc, fatal>>
          ELSE /\ Fatal("listing")
               /\ UNCHANGED <<visited, served, walker>>
    /\ UNCHANGED <<config, site, mainPc, dirCreated, wg, semaphore, closed, sink,
                   received, printed, tasks, finished>>

\* for url != "" is false: the loop ends.
W_LoopEnd ==
    /\ Running
    /\ walker.pc = "loop"
    /\ walker.url = EmptyString
    /\ walker' = [walker EXCEPT !.pc = "close"]
    /\ UNCHANGED <<config, site, proc, fatal, mainPc, dirCreated, wg, semaphore,
                   closed, visited, served, sink, received, printed, tasks, finished>>

\* extractImageUrls on an anchor without href: log.Fatal if verbose, else return.
HrefMissingIsFatal == config.verbose

\* The callback's return taken for the end of the whole extraction.
W_HrefMissing_StopsPage ==
    /\ Running
    /\ walker.pc = "extract"
    /\ walker.todo # << >>
    /\ ~Head(walker.todo).ok
    /\ IF HrefMissingIsFatal
       THEN /\ Fatal("href")
            /\ UNCHANGED walker
       ELSE /\ walker' = [walker EXCEPT !.todo = << >>]
            /\ UNCHANGED <<proc, fatal>>
    /\ UNCHANGED <<config, site, mainPc, dirCreated, wg, semaphore, closed,
                   visited, served, sink, received, printed, tasks, finished>>

W_HrefMissing ==
    /\ Running
    /\ walker.pc = "extract"
    /\ walker.todo # << >>
    /\ ~Head(walker.todo).ok
    /\ IF HrefMissingIsFatal
       THEN /\ Fatal("href")
            /\ UNCHANGED walker
       ELSE /\ walker' = [walker EXCEPT !.todo = Tail(@)]
            /\ UNCHANGED <<proc, fatal>>
    /\ UNCHANGED <<config, site, mainPc, dirCreated, wg, semaphore, closed,
                   visited, served, sink, received, printed, tasks, finished>>

\* The sink's state after it received val from the stream.
SinkReceived(val) ==
    [sink EXCEPT !.url = val,
                 !.pc = IF sink.pc = "print-recv" THEN "print" ELSE "fetch"]

\* A send that does not wait for the receiver: the item replaces the one the
\* sink is working on.
Handoff_NoWait ==
    /\ Running
    /\ walker.pc = "extract"
    /\ walker.todo # << >>
    /\ Head(walker.todo).ok
    /\ ~closed
    /\ sink' = SinkReceived(Head(walker.todo).val)
    /\ received' = Append(received, Head(walker.todo).val)
    /\ walker' = [walker EXCEPT !.todo = Tail(@)]
    /\ UNCHANGED <<config, site, proc, fatal, mainPc, dirCreated, wg, semaphore,
                   closed, visited, served, printed, tasks, finished>>

\* urls <- val in extractImageUrls meets the sink's receive (for url := range
\* urls): the channel is unbuffered, both sides move in one step.
Handoff ==
    /\ Running
    /\ walker.pc = "extract"
    /\ walker.todo # << >>
    /\ Head(walker.todo).ok
    /\ sink.pc \in {"recv", "print-recv"}
    /\ ~closed
    /\ sink' = SinkReceived(Head(walker.todo).val)
    /\ received' = Append(received, Head(walker.todo).val)
    /\ walker' = [walker EXCEPT !.todo = Tail(@)]
    /\ UNCHANGED <<config, site, proc, fatal, mainPc, dirCreated, wg, semaphore,
                   closed, visited, served, printed, tasks, finished>>

\* A guard that remembers every page fetched, not only the last one.
CycleGuard_AnyVisited(url, nextUrl) ==
    \/ url = nextUrl
    \/ \E i \in DOMAIN visited : visited[i] = nextUrl

\* The loop without its break.
CycleGuard_Missing(url, nextUrl) == FALSE

\* if nextUrl := extractNextUrl(doc); url == nextUrl { break }
CycleGuard(url, nextUrl) == url = nextUrl

\* extractImageUrls returned: extractNextUrl reads the document's pager, which
\* decides between break and the next turn of the loop.
W_Next ==
    /\ Running
    /\ walker.pc = "extract"
    /\ walker.todo = << >>
    /\ \E pager \in ServedPagers(walker.url) :
          /\ site' = (walker.url :> pager) @@ site
          /\ LET nextUrl == extractNextUrl(pager)
             IN IF CycleGuard(walker.url, nextUrl)
                THEN walker' = [walker EXCEPT !.pc = "close"]
                ELSE walker' = [walker EXCEPT !.pc = "loop", !.url = nextUrl]
    /\ UNCHANGED <<config, proc, fatal, mainPc, dirCreated, wg, semaphore,
                   closed, visited, served, sink, received, printed, tasks, finished>>

\* defer close(urls)
W_Close ==
    /\ Running
    /\ walker.pc = "close"
    /\ closed' = TRUE
    /\ walker' = [walker EXCEPT !.pc = "return"]
    /\ UNCHANGED <<config, site, proc, fatal, mainPc, dirCreated, wg, semaphore,
                   visited, served, sink, received, printed, tasks, finished>>

\* defer wg.Done()
W_Done ==
    /\ Running
    /\ walker.pc = "return"
    /\ wg' = wg - 1
    /\ walker' = [walker EXCEPT !.pc = "done"]
    /\ UNCHANGED <<config, site, proc, fatal, mainPc, dirCreated, semaphore,
                   closed, visited, served, sink, received, printed, tasks, finished>>

\* ------------------------------------------------------------------ sink
\* A receive that does not wait: the loop ends when no item is at hand.
S_RangeEnd_Early ==
    /\ Running
    /\ sink.pc \in {"recv", "print-recv"}
    /\ sink' = [sink EXCEPT !.pc = "return"]
    /\ UNCHANGED <<config, site, proc, fatal, mainPc, dirCreated, wg, semaphore,
                   closed, walker, visited, served, received, printed, tasks, finished>>

\* for url := range urls ends: the stream is closed (and, unbuffered, empty).
S_RangeEnd ==
    /\ Running
    /\ sink.pc \in {"recv", "print-recv"}
    /\ closed
    /\ sink' = [sink EXCEPT !.pc = "return"]
    /\ UNCHANGED <<config, site, proc, fatal, mainPc, dirCreated, wg, semaphore,
                   closed, walker, visited, served, received, printed, tasks, finished>>

\* printImages: fmt.Printf("%s\n", url)
P_Print ==
    /\ Running
    /\ sink.pc = "print"
    /\ printed' = Append(printed, sink.url)
    /\ sink' = [sink EXCEPT !.pc = "print-recv"]
    /\ UNCHANGED <<config, site, proc, fatal, mainPc, dirCreated, wg, semaphore,
                   closed, walker, visited, served, received, tasks, finished>>

\* downloadImages: goquery.NewDocument(url); an error is logged and the loop
\* continues; else the #zoom ul li a anchors are walked.
S_Fetch ==
    /\ Running
    /\ sink.pc = "fetch"
    /\ \E ok \in BOOLEAN :
          IF ok
          THEN \E links \in ZoomLists :
                  sink' = [sink EXCEPT !.pc = "each", !.todo = links]
          ELSE sink' = [sink EXCEPT !.pc = "recv"]
    /\ UNCHANGED <<config, site, proc, fatal, mainPc, dirCreated, wg, semaphore,
                   closed, walker, visited, served, received, printed, tasks, finished>>

\* The send on the semaphore left out.
AcquiresToken_Never == FALSE

\* The send on the semaphore done whatever config.parallel is.
AcquiresToken_Always == TRUE

\* if config.parallel > 0 { semaphore <- struct{}{} }
AcquiresToken == config.parallel > 0

\* The zoom anchors from the first one that has an href with size=o in it: the
\* callback returns at once for the others.
RECURSIVE SkipToOriginal(_)
SkipToOriginal(anchors) ==
    IF anchors = << >> THEN anchors
    ELSE LET s == Head(anchors)
         IN IF ~s.ok THEN SkipToOriginal(Tail(anchors))
            ELSE IF ~Contains(s.val, "size=o") THEN SkipToOriginal(Tail(anchors))
            ELSE anchors

\* Each up to the next semaphore send (or wg.Add), or to the end of the anchors.
S_Each ==
    /\ Running
    /\ sink.pc = "each"
    /\ LET rest == SkipToOriginal(sink.todo)
       IN IF rest = << >>
          THEN sink' = [sink EXCEPT !.pc = "recv", !.todo = rest]
          ELSE sink' = [sink EXCEPT !.pc = IF AcquiresToken THEN "acquire"
                                           ELSE "add",
                                    !.todo = rest]
    /\ UNCHANGED <<config, site, proc, fatal, mainPc, dirCreated, wg, semaphore,
                   closed, walker, visited, served, received, printed, tasks, finished>>

\* The buffer made one slot too large: make(chan struct{}, config.parallel+1).
SemaphoreCapacity_OneMore == config.parallel + 1

\* make(chan struct{}, config.parallel): a send blocks while the buffer is full.
SemaphoreCapacity == config.parallel

\* semaphore <- struct{}{}
S_Acquire ==
    /\ Running
    /\ sink.pc = "acquire"
    /\ semaphore < SemaphoreCapacity
    /\ semaphore' = semaphore + 1
    /\ sink' = [sink EXCEPT !.pc = "add"]
    /\ UNCHANGED <<config, site, proc, fatal, mainPc, dirCreated, wg, closed,
                   walker, visited, served, received, printed, tasks, finished>>

\* The goroutine started without wg.Add(1).
S_Add_NotCounted ==
    /\ Running
    /\ sink.pc = "add"
    /\ sink' = [sink EXCEPT !.pc = "go"]
    /\ UNCHANGED <<config, site, proc, fatal, mainPc, dirCreated, wg, semaphore,
                   closed, walker, visited, served, received, printed, tasks,
                   finished>>

\* wg.Add(1)
S_Add ==
    /\ Running
    /\ sink.pc = "add"
    /\ wg' = wg + 1
    /\ sink' = [sink EXCEPT !.pc = "go"]
    /\ UNCHANGED <<config, site, proc, fatal, mainPc, dirCreated, semaphore,
                   closed, walker, visited, served, received, printed, tasks, finished>>

\* go downloadActualImage(config.defaultDomain+val, wg)
S_Go ==
    /\ Running
    /\ sink.pc = "go"
    /\ tasks' = tasks (+) SetToBag({Task("resolve", "", 0)})
    /\ sink' = [sink EXCEPT !.pc = "each", !.todo = Tail(@)]
    /\ UNCHANGED <<config, site, proc, fatal, mainPc, dirCreated, wg, semaphore,
                   closed, walker, visited, served, received, printed, finished>>

\* defer wg.Done() of downloadImages and of printImages
S_Done ==
    /\ Running
    /\ sink.pc = "return"
    /\ wg' = wg - 1
    /\ sink' = [sink EXCEPT !.pc = "done"]
    /\ UNCHANGED <<config, site, proc, fatal, mainPc, dirCreated, semaphore,
                   closed, walker, visited, served, received, printed, tasks, finished>>

\* ----------------------------------------------------------------- tasks
\* One goroutine of the bag moves from t to u.
Move(t, u) == tasks' = (tasks (-) SetToBag({t})) (+) SetToBag({u})

\* The img src of the parent of each "div table" of an item's document.
ImageSrc == Attr(<<"http://img.nagi.ee", "/o.jpg">>)
ItemDocs == {<< >>, <<NoAttr>>, <<ImageSrc>>, <<ImageSrc, NoAttr>>}

\* getActualImageUrl's Each: the last table with an img src sets image.
RECURSIVE ImageOf(_, _)
ImageOf(tables, image) ==
    IF tables = << >> THEN image
    ELSE ImageOf(Tail(tables), IF Head(tables).ok THEN Head(tables).val ELSE image)

\* downloadActualImage without its receive from the semaphore.
ReleasesToken_Never == FALSE

\* if config.parallel > 0 { <-semaphore }
ReleasesToken == config.parallel > 0

\* The token released only after a download without error.
AfterDownload_ReleaseOnSuccess(res) ==
    IF ReleasesToken /\ res # "failed" THEN "release" ELSE "return"

\* An early return on imageUrl == "": the receive from the semaphore skipped.
AfterDownload_SkipsReleaseWhenEmpty(res) ==
    IF ReleasesToken /\ res # "empty" THEN "release" ELSE "return"

\* Where downloadActualImage goes on after downloadImage returned with res (or
\* was skipped, res "empty").
AfterDownload(res) == IF ReleasesToken THEN "release" ELSE "return"

\* getActualImageUrl(url): a fetch error is logged and "" returned.
T_Resolve ==
    /\ Running
    /\ \E t \in BagToSet(tasks) :
          /\ t.pc = "resolve"
          /\ \E ok \in BOOLEAN, tables \in ItemDocs :
                LET imageUrl == IF ok THEN ImageOf(tables, EmptyString)
                                ELSE EmptyString
                IN IF imageUrl # EmptyString
                   THEN Move(t, [t EXCEPT !.pc = "download"])
                   ELSE Move(t, [t EXCEPT !.pc = AfterDownload("empty"), !.res = "empty"])
    /\ UNCHANGED <<config, site, proc, fatal, mainPc, dirCreated, wg, semaphore,
                   closed, walker, visited, served, sink, received, printed, finished>>

\* downloadImage's outcomes: os.Create fails; http.Get fails; io.Copy fails;
\* out.Sync fails; none fails.
DownloadOutcomes == {"createErr", "getErr", "copyErr", "syncErr", "ok"}

\* What a goroutine keeps of downloadImage's outcome: every error that is logged
\* and returned from leaves the same state behind.
Result(outcome) == IF outcome = "ok" THEN "ok" ELSE "failed"

\* downloadImage(imageUrl): log.Fatal when os.Create fails; every other error is
\* logged and the function returns.
CreateErrorIsFatal == TRUE

T_Download ==
    /\ Running
    /\ \E t \in BagToSet(tasks) :
          /\ t.pc = "download"
          /\ \E outcome \in DownloadOutcomes :
                IF outcome = "createErr" /\ CreateErrorIsFatal
                THEN /\ Fatal("create")
                     /\ UNCHANGED tasks
                ELSE /\ Move(t, [t EXCEPT !.pc = AfterDownload(Result(outcome)),
                                              !.res = Result(outcome)])
                     /\ UNCHANGED <<proc, fatal>>
    /\ UNCHANGED <<config, site, mainPc, dirCreated, wg, semaphore, closed,
                   walker, visited, served, sink, received, printed, finished>>

\* <-semaphore: a receive blocks while the buffer is empty.
T_Release ==
    /\ Running
    /\ semaphore > 0
    /\ \E t \in BagToSet(tasks) :
          /\ t.pc = "release"
          /\ Move(t, [t EXCEPT !.pc = "return", !.rel = @ + 1])
    /\ semaphore' = semaphore - 1
    /\ UNCHANGED <<config, site, proc, fatal, mainPc, dirCreated, wg, closed,
                   walker, visited, served, sink, received, printed, finished>>

\* downloadActualImage without its deferred wg.Done().
T_Done_NoSignal ==
    /\ Running
    /\ \E t \in BagToSet(tasks) :
          /\ t.pc = "return"
          /\ tasks' = tasks (-) SetToBag({t})
    /\ finished' = finished + 1
    /\ UNCHANGED <<config, site, proc, fatal, mainPc, dirCreated, wg, semaphore,
                   closed, walker, visited, served, sink, received, printed>>

\* defer wg.Done() of downloadActualImage
T_Done ==
    /\ Running
    /\ \E t \in BagToSet(tasks) :
          /\ t.pc = "return"
          /\ tasks' = tasks (-) SetToBag({t})
    /\ finished' = finished + 1
    /\ wg' = wg - 1
    /\ UNCHANGED <<config, site, proc, fatal, mainPc, dirCreated, semaphore,
                   closed, walker, visited, served, sink, received, printed>>

\* --------------------------------------------------------- specification
Next ==
    \/ Main_CreateDir
    \/ Main_Start
    \/ Main_Wait
    \/ W_Fetch
    \/ W_LoopEnd
    \/ W_HrefMissing
    \/ Handoff
    \/ W_Next
    \/ W_Close
    \/ W_Done
    \/ S_RangeEnd
    \/ P_Print
    \/ S_Fetch
    \/ S_Each
    \/ S_Acquire
    \/ S_Add
    \/ S_Go
    \/ S_Done
    \/ T_Resolve
    \/ T_Download
    \/ T_Release
    \/ T_Done

Spec == Init /\ [][Next]_vars

\* The Go scheduler runs every goroutine that can take a step.
Fairness ==
    /\ WF_vars(Main_CreateDir \/ Main_Start \/ Main_Wait)
    /\ WF_vars(W_Fetch \/ W_LoopEnd \/ W_HrefMissing \/ W_Next \/ W_Close \/ W_Done)
    /\ WF_vars(Handoff)
    /\ WF_vars(S_RangeEnd \/ P_Print \/ S_Fetch \/ S_Each \/ S_Acquire \/ S_Add
                 \/ S_Go \/ S_Done)
    /\ WF_vars(T_Resolve \/ T_Download \/ T_Release \/ T_Done)

FairSpec == Spec /\ Fairness

\* ---------------------------------------------------------------- claims
\* Number of goroutines of the bag whose pc is in pcs.
TasksAt(pcs) ==
    BagCardinality([t \in {x \in BagToSet(tasks) : x.pc \in pcs} |-> tasks[t]])

\* Goroutines resolving (getActualImageUrl) or downloading (downloadImage).
Executing == TasksAt({"resolve", "download"})

\* C1: with parallelism N > 0 at most N spawned tasks are resolving or
\* downloading at any time, each of them before its release of a token, and the
\* semaphore holds a token for each of them.
C1_AtMostNDownloads ==
    config.parallel > 0 =>
        /\ Executing <= config.parallel
        /\ Executing <= semaphore
        /\ \A t \in BagToSet(tasks) : t.pc \in {"resolve", "download"} => t.rel = 0

\* N = 1: one task downloads while the sink waits for the token with the next.
C1_Witness ==
    /\ config.parallel = 1
    /\ TasksAt({"download"}) = 1
    /\ sink.pc = "acquire"
    /\ semaphore = 1

\* C2: main's wg.Wait() returns (and the process exits with status 0) only when
\* the walker, the sink and every spawned task have finished.
C2_ExitOnlyWhenAllDone ==
    proc = "exit0" =>
        /\ walker.pc = "done"
        /\ sink.pc = "done"
        /\ tasks = EmptyBag

\* The process exited with status 0 after two spawned tasks.
C2_Witness ==
    /\ proc = "exit0"
    /\ finished = 2

\* The pagination chain is cyclic: a listing page was fetched twice, or the
\* walker is about to fetch one again.
CyclicChain ==
    \/ \E i, j \in DOMAIN visited : i # j /\ visited[i] = visited[j]
    \/ walker.pc = "loop" /\ \E i \in DOMAIN visited : visited[i] = walker.url

\* C3: on an acyclic chain, the output directory made and every listing page
\* fetched without error, a fairly scheduled run eventually completes: wg.Wait()
\* returns and the process exits with status 0.
C3_RunCompletes ==
    <>(proc = "exit0" \/ CyclicChain \/ fatal \in {"mkdir", "listing"})

\* On an acyclic chain a fairly scheduled run ends, by os.Exit(0) or by one of
\* the log.Fatal calls: the walker, the sink and the tasks never block each other
\* for ever.
RunEnds == <>(proc # "running" \/ CyclicChain)

\* The hrefs of the first n items the site serves.
ItemSeq(n) == [i \in 1..n |-> ItemHref(i)]

\* C4: what the sink received, followed by what the walker has still to push of
\* the page it is on, is the sequence of the hrefs served so far, in page order
\* and document order: nothing is lost, duplicated or reordered; the walker
\* leaves a page only with all its items pushed, and the item the sink works on
\* is the last one received.
C4_StreamInOrder ==
    /\ received \o Hrefs(walker.todo) = ItemSeq(served)
    /\ walker.pc # "extract" => walker.todo = << >>
    /\ sink.pc \in {"fetch", "print"} => sink.url = received[Len(received)]

\* An item of the first page was received and the walker is on the second page
\* with an item to push.
C4_Witness ==
    /\ Len(visited) = 2
    /\ Len(received) = 1
    /\ walker.pc = "extract"
    /\ walker.todo # << >>
    /\ Head(walker.todo).ok
    /\ served = 2

\* The listing page a pager links next: the href of its last next_pager_ anchor
\* that has one, resolved against the domain; "" without such an anchor.
RECURSIVE LinkedNext(_, _)
LinkedNext(anchors, nextUrl) ==
    IF anchors = << >> THEN nextUrl
    ELSE LET s == Head(anchors)
         IN IF s.id.ok /\ HasPrefix(s.id.val, <<"next_pager_">>) /\ s.href.ok
            THEN LinkedNext(Tail(anchors), defaultDomain \o s.href.val)
            ELSE LinkedNext(Tail(anchors), nextUrl)

\* Number of pages of the pagination chain from url on, n pages before it: the
\* chain ends at a page that links no next page, or itself, or a page whose
\* pager was not served yet, or after MaxFetches pages.
RECURSIVE ChainLength(_, _)
ChainLength(url, n) ==
    IF n >= MaxFetches \/ url \notin DOMAIN site THEN n + 1
    ELSE LET nextUrl == LinkedNext(site[url], EmptyString)
         IN IF nextUrl = EmptyString \/ nextUrl = url THEN n + 1
            ELSE ChainLength(nextUrl, n + 1)

\* C5: the stream is closed after exactly K listing-page fetches, K the number
\* of pages of the pagination chain, with every item of the last page pushed.
C5_ClosedAfterKFetches ==
    closed =>
        /\ Len(visited) = ChainLength(config.url, 0)
        /\ Len(received) = served
        /\ walker.todo = << >>

\* C6: the walker never goes on to the page it has just fetched; a seed page
\* whose pager resolves to the seed URL is fetched once, its items are pushed
\* once, and the walker goes to close the stream.
C6_CycleGuard ==
    /\ \A i \in 1..(Len(visited) - 1) : visited[i] # visited[i + 1]
    /\ walker.pc = "loop" /\ visited # << >> => walker.url # visited[Len(visited)]
    /\ (/\ config.url \in DOMAIN site
        /\ extractNextUrl(site[config.url]) = config.url)
       => /\ visited = <<config.url>>
          /\ walker.pc \in {"close", "return", "done"}
          /\ received = ItemSeq(served)

\* The seed page links itself: fetched once, two items pushed, the stream
\* closed and the walker done.
C6_Witness ==
    /\ config.url \in DOMAIN site
    /\ extractNextUrl(site[config.url]) = config.url
    /\ walker.pc = "done"
    /\ closed
    /\ Len(received) = 2

\* C7: with parallelism N > 0 a task whose transfer failed goes on to release
\* its token and has released it when it returns; and while the sink waits at a
\* full semaphore some task still has its release ahead.
C7_FailedTransferReleases ==
    config.parallel > 0 =>
        /\ \A t \in BagToSet(tasks) :
              /\ t.res = "failed" => t.pc \in {"release", "return"}
              /\ t.pc = "return" => t.rel = 1
        /\ sink.pc = "acquire" /\ semaphore = SemaphoreCapacity
              => \E t \in BagToSet(tasks) : t.rel = 0

\* N = 1: a task whose transfer failed has released the token, and the sink has
\* taken it for the next download.
C7_Witness ==
    /\ config.parallel = 1
    /\ \E t \in BagToSet(tasks) : t.res = "failed" /\ t.pc = "return" /\ t.rel = 1
    /\ sink.pc = "add"
    /\ semaphore = 1

\* C8: no failure inside downloadImage ends the run: the process is never ended
\* by the log.Fatal of a download.
C8_DownloadFailuresContained == fatal # "create"

\* C9: an item anchor without href never ends the run, verbose or not.
C9_MissingHrefSkipped == fatal # "href"

\* printed is what was received, less the line printImages is about to write.
PrintedUpTo(n) == printed = SubSeq(received, 1, n)

\* C10: in dry-run mode the output directory is never made, no download task is
\* ever spawned and no token taken; printImages writes one line per item
\* received, in the order served, and returns only once the stream is closed.
C10_DryRun ==
    config.dryrun =>
        /\ ~dirCreated
        /\ tasks = EmptyBag /\ finished = 0 /\ semaphore = 0
        /\ sink.pc \in {"idle", "print-recv", "print", "return", "done"}
        /\ PrintedUpTo(IF sink.pc = "print" THEN Len(received) - 1 ELSE Len(received))
        /\ received = ItemSeq(Len(received))
        /\ sink.pc \in {"return", "done"} => closed /\ printed = ItemSeq(served)

\* A dry run over two pages that printed two lines and exited with status 0.
C10_Witness ==
    /\ config.dryrun
    /\ proc = "exit0"
    /\ Len(visited) = 2
    /\ Len(printed) = 2

\* C11: with parallelism 0 no token is ever acquired or released: the sink is
\* never at the send on the semaphore, no task is at the receive or has done one,
\* the semaphore stays empty.
C11_NoTokensWhenUnbounded ==
    config.parallel = 0 =>
        /\ semaphore = 0
        /\ sink.pc # "acquire"
        /\ \A t \in BagToSet(tasks) : t.pc # "release" /\ t.rel = 0

\* Parallelism 0: every task spawned so far (MaxItems of them) is inside
\* downloadImage at once, none has returned.
C11_Witness ==
    /\ config.parallel = 0
    /\ TasksAt({"download"}) = MaxItems
    /\ finished = 0

\* C12: when the fetch of a listing page fails the process exits with status 1
\* in that step and nothing happens afterwards: main never reaches os.Exit(0),
\* the running tasks stay where they were, no further listing page is fetched and
\* the stream is not closed.
C12_ListingFailureExits ==
    [][fatal' = "listing" =>
          /\ proc' = "exit1"
          /\ mainPc' = mainPc
          /\ tasks' = tasks /\ finished' = finished /\ wg' = wg
          /\ visited' = visited
          /\ closed' = closed]_vars

\* The fetch of the second listing page failed while a task was downloading.
C12_Witness ==
    /\ fatal = "listing"
    /\ Len(visited) = 1
    /\ TasksAt({"download"}) = 1
    /\ wg > 0

\* C13: a task whose resolver returned "" never calls downloadImage and never
\* ends the process: it goes on to release its token (parallelism > 0) and to
\* wg.Done, and it has released exactly one token when it returns.
C13_EmptyAssetSkipped ==
    \A t \in BagToSet(tasks) :
        t.res = "empty" =>
            /\ t.pc \in {"release", "return"}
            /\ t.pc = "release" => config.parallel > 0 /\ t.rel = 0
            /\ t.pc = "return" => t.rel = (IF config.parallel > 0 THEN 1 ELSE 0)

\* N = 1: a task without asset has released its token and the sink has taken it
\* for the next item.
C13_Witness ==
    /\ config.parallel = 1
    /\ \E t \in BagToSet(tasks) : t.res = "empty" /\ t.pc = "return" /\ t.rel = 1
    /\ sink.pc = "add"
    /\ semaphore = 1
    /\ proc = "running"

\* Number of goroutines of the bag that satisfy P.
TasksSuch(P(_)) ==
    BagCardinality([t \in {x \in BagToSet(tasks) : P(x)} |-> tasks[t]])

\* The sink has sent on the semaphore for a task it has not started yet.
SinkHolds == IF AcquiresToken /\ sink.pc \in {"add", "go"} THEN 1 ELSE 0

\* Tasks before their release whose asset is resolved and not empty.
WithAsset ==
    TasksSuch(LAMBDA t : t.rel = 0 /\ (t.pc = "download" \/ t.res \in {"ok", "failed"}))

\* Tasks before their release whose asset is not resolved yet, or is empty.
WithoutAsset ==
    TasksSuch(LAMBDA t : t.rel = 0 /\ (t.pc = "resolve" \/ t.res = "empty"))

C15_SinkDoneAfterTasks ==
    sink.pc = "done" => closed /\ tasks = EmptyBag

\* C15, amended: the sink returns only with the stream closed, every item served
\* received and every link of the last item handled, each task it spawned counted
\* by the WaitGroup; the tasks themselves may still be running.
C15_SinkDoneAfterStream ==
    sink.pc \in {"return", "done"} =>
        /\ closed
        /\ received = ItemSeq(served)
        /\ sink.todo = << >>
        /\ wg >= BagCardinality(tasks)

\* The sink is done while a task it spawned is still downloading.
C15_Witness ==
    /\ ~config.dryrun
    /\ sink.pc = "done"
    /\ TasksAt({"download"}) >= 1
    /\ wg >= 1

\* The walker is at urls <- val with an item to push.
AtPush ==
    /\ walker.pc = "extract"
    /\ walker.todo # << >>
    /\ Head(walker.todo).ok

\* The sink is at the send on a full semaphore.
SinkBlocked == sink.pc = "acquire" /\ semaphore = SemaphoreCapacity

\* C16, as claimed (last part): while the sink is blocked on the acquisition of
\* a token the walker is blocked too, it takes no step.
C16_WalkerBlockedWithSink ==
    [][SinkBlocked => walker' = walker]_vars

\* C16, amended: the walker's push completes only in the step in which the
\* sink, waiting at its receive, takes the item; the walker fetches the next
\* listing page, and closes the stream, only with every item served so far
\* received. (It is blocked while the sink is busy only once it is at a push.)
C16_Rendezvous ==
    [][/\ (AtPush /\ walker' # walker) =>
             /\ sink.pc \in {"recv", "print-recv"}
             /\ received' = Append(received, Head(walker.todo).val)
             /\ sink'.url = Head(walker.todo).val
             /\ walker'.todo = Tail(walker.todo)
       /\ visited' # visited => Len(received) = served
       /\ closed' # closed => Len(received) = served]_vars

\* N = 1: the sink waits for the token with the second item of the first page
\* and the walker has gone on to the second page meanwhile.
C16_Witness ==
    /\ config.parallel = 1
    /\ SinkBlocked
    /\ Len(received) = 2
    /\ Len(visited) = 2
    /\ walker.pc = "extract"

\* Number of unfinished tasks: the walker and the sink once started, the running
\* downloadActualImage goroutines, and the one the sink has counted with
\* wg.Add(1) and is about to start.
Unfinished ==
    (IF walker.pc \in {"idle", "done"} THEN 0 ELSE 1)
    + (IF sink.pc \in {"idle", "done"} THEN 0 ELSE 1)
    + BagCardinality(tasks)
    + (IF sink.pc = "go" THEN 1 ELSE 0)

\* C17: the WaitGroup's counter is the number of unfinished tasks, a spawned
\* task counted from before its go statement; it is never negative, and once
\* startDownloads has started the walker and the sink it is zero only with the
\* stream closed and the walker, the sink and every spawned task finished.
C17_CounterIsUnfinished ==
    /\ wg = Unfinished
    /\ wg >= 0
    /\ (mainPc \in {"wait", "exited"} /\ wg = 0) =>
           /\ closed
           /\ walker.pc = "done" /\ sink.pc = "done"
           /\ tasks = EmptyBag

\* The walker, the sink, a running task and the task the sink has counted and
\* not started yet.
C17_Witness ==
    /\ wg = 4
    /\ sink.pc = "go"
    /\ BagCardinality(tasks) = 1
    /\ walker.pc = "extract"

\* The pager's next anchor has no href: its last next_pager_ anchor is one
\* without the attribute.
RECURSIVE NextAnchorWithoutHref(_, _)
NextAnchorWithoutHref(anchors, found) ==
    IF anchors = << >> THEN found
    ELSE LET s == Head(anchors)
         IN IF s.id.ok /\ HasPrefix(s.id.val, <<"next_pager_">>)
            THEN NextAnchorWithoutHref(Tail(anchors), ~s.href.ok)
            ELSE NextAnchorWithoutHref(Tail(anchors), found)

\* C18: a listing page whose next-page anchor has no href is the last page
\* fetched: having read its pager the walker goes to close the stream, it does
\* not go on to any further URL.
C18_InvalidPagerEndsWalk ==
    \A u \in DOMAIN site :
        NextAnchorWithoutHref(site[u], FALSE) =>
            /\ visited[Len(visited)] = u
            /\ walker.pc \in {"close", "return", "done"}

\* Tasks that have not executed their release.
Unreleased == TasksSuch(LAMBDA t : t.rel = 0)

\* C19: with parallelism N > 0 the semaphore holds as many tokens as there are
\* spawned tasks that have not released yet, the task the sink has taken a token
\* for and not started included; a task releases once, before it returns; a task
\* at its release finds a token to receive; and the semaphore is empty when the
\* process exits with status 0.
C19_TokenConservation ==
    config.parallel > 0 =>
        /\ semaphore = Unreleased + SinkHolds
        /\ \A t \in BagToSet(tasks) :
              /\ t.rel \in {0, 1}
              /\ t.rel = 1 <=> t.pc = "return"
              /\ t.pc = "release" => semaphore > 0
        /\ proc = "exit0" => semaphore = 0

\* N = 2: both tokens are taken, one for a task about to release, one by the
\* sink for the task it is about to start.
C19_Witness ==
    /\ config.parallel = 2
    /\ semaphore = 2
    /\ TasksAt({"release"}) = 1
    /\ sink.pc = "go"

\* A listing page was fetched again: the pagination chain has gone round a
\* cycle (of two pages or more, the guard excludes a page after itself).
RevisitedPage ==
    \E i, j \in DOMAIN visited : i < j /\ visited[i] = visited[j]

\* The last listing page fetched.
LastVisited == visited[Len(visited)]

\* C20: the guard compares the next URL with the page just fetched only: the
\* walker leaves the loop only at a page that links no next page or links
\* itself, never because the next page was fetched before; and once a page was
\* fetched again the walker stays in the loop, fetching and pushing: the stream
\* is not closed and the process does not exit with status 0.
C20_CycleNotDetected ==
    /\ walker.pc \in {"close", "return", "done"} =>
           extractNextUrl(site[LastVisited]) \in {EmptyString, LastVisited}
    /\ RevisitedPage =>
           /\ walker.pc \in {"loop", "extract"}
           /\ ~closed
           /\ proc # "exit0"

\* The first page links the second and the second the first: the first page
\* was fetched again and an item of it pushed to the sink.
C20_Witness ==
    /\ Len(visited) = 3
    /\ visited[3] = visited[1]
    /\ visited[2] # visited[1]
    /\ extractNextUrl(site[visited[2]]) = visited[1]
    /\ walker.pc = "extract"
    /\ Len(received) = 2
    /\ served = 2

====
